---- MODULE Spec2Model ----
(***************************************************************************)
(* A model of package webimizer (src/webimizer.go): the handler envelope   *)
(* HttpHandler.ServeHTTP, the compressing writer gzipResponseWriter, the   *)
(* method/origin gate HttpHandlerStruct.notAllowed and the static file     *)
(* resolver neuteredFileSystem.Open.                                       *)
(*                                                                         *)
(* Bytes are integers 0..255 and a byte slice is a sequence of them.  A    *)
(* request header value that the code searches (Accept-Encoding) is a      *)
(* sequence of one-character strings; values the code only compares for    *)
(* equality (methods, origins, response header values) are strings.  A     *)
(* response header map is, as in net/http, a map from canonical names to   *)
(* lists of values.                                                        *)
(***************************************************************************)
EXTENDS Integers, Sequences, FiniteSets, TLC

VARIABLES
  DefaultHTTPHeaders, \* the package variable of the same name
  builder,            \* the HttpHandlerStruct that Build was called on
  fnKind,             \* which HttpHandler is registered: "gated", "plain", "fileserver"
  fsys,               \* the directory tree under fsPath: path -> kind
  active,             \* the requests being served
  req,                \* per request: the *http.Request
  pc,                 \* per request: position in ServeHTTP
  sink,               \* per request: the underlying http.ResponseWriter:
                      \*   hdr (its Header()), status (0: none written yet),
                      \*   sent (hdr as it was when the status was written),
                      \*   body (what it was given to send)
  w,                  \* per request: the writer handed to fn: "none", "sink", "gzr"
  gz,                 \* per request: the local gz of ServeHTTP (a stream id, 0: none)
  gzs,                \* the gzip.Writer objects that exist (id = position)
  sel,                \* per request: the handler the call resolved to
  wrote,              \* per request: the slices the handler passed to Write, in order
  hops,               \* per request: header operations the handler has made
  outcome,            \* per request: "none", "ok" (fn returned), "panic" (fn panicked)
  handles,            \* the http.File objects that exist (id = position)
  ret,                \* per request: what the last neuteredFileSystem.Open returned
  primaryErr,         \* per request: the failure of the primary lookup inside that Open
  lookup,             \* per request: the path that Open was called with
  held,               \* per request: the files http.FileServer holds open (deferred Close)
  build               \* the net/http of the build: traverse (serveFile refuses a file
                      \*   at a URL that ends in "/" with 500), strip (its error
                      \*   answers delete the content's headers)

vars == <<DefaultHTTPHeaders, builder, fnKind, fsys, build, active, req, pc, sink,
          w, gz, gzs, sel, wrote, hops, outcome, handles, ret, primaryErr, lookup,
          held, build>>

Procs == {1, 2}

\* The most Write calls one handler makes.
MaxWrites == 2
\* The most header operations (Set / Del of Content-Type) one handler makes.
MaxHeaderOps == 2
\* The longest allow-list of a gate.
MaxList == 2

----------------------------------------------------------------------------
(* Byte slices the handlers write. *)

Html == <<60, 98, 62>>                \* "<b>"
Pdf == <<37, 80, 68, 70, 45>>         \* "%PDF-"
Bin == <<0, 1>>
Txt == <<104, 105>>                   \* "hi"
SpHtml == <<32, 60, 66, 32>>          \* " <B "
BadRequest == <<66, 97, 100, 32, 82, 101, 113, 117, 101, 115, 116>>

Chunks == {Html, SpHtml, Bin, Txt}

RECURSIVE Concat(_)
Concat(ss) == IF ss = <<>> THEN <<>> ELSE Head(ss) \o Concat(Tail(ss))

----------------------------------------------------------------------------
(* strings.Contains, on sequences of characters. *)

Gzip == <<"g", "z", "i", "p">>

Contains(s, sub) ==
  \E k \in 0..(Len(s) - Len(sub)) : SubSeq(s, k + 1, k + Len(sub)) = sub

----------------------------------------------------------------------------
(* http.Header: canonical name -> list of values. *)

HeaderNames ==
  {"Content-Type", "Content-Encoding", "X-Frame-Options", "Location", "Last-Modified",
   "Accept-Ranges", "Content-Length", "X-Content-Type-Options"}

\* textproto.CanonicalMIMEHeaderKey on the names the model uses.
Canon(k) ==
  CASE k = "content-type" -> "Content-Type"
    [] k = "content-encoding" -> "Content-Encoding"
    [] k = "x-frame-options" -> "X-Frame-Options"
    [] OTHER -> k

EmptyHeader == [k \in HeaderNames |-> <<>>]

HeaderGet(h, k) == IF h[Canon(k)] = <<>> THEN "" ELSE h[Canon(k)][1]

HeaderSet(h, k, v) == [h EXCEPT ![Canon(k)] = <<v>>]

HeaderDel(h, k) == [h EXCEPT ![Canon(k)] = <<>>]

----------------------------------------------------------------------------
(* http.DetectContentType, for inputs shorter than its 512-byte window:    *)
(* the html signatures "<B" and "<P", the exact signature "%PDF-", the     *)
(* text signature, and the fallback, tried in that order.                  *)

IsWS(b) == b \in {9, 10, 12, 13, 32}

IsTT(b) == b \in {32, 62}

RECURSIVE FirstNonWS(_)
FirstNonWS(data) ==
  IF data # <<>> /\ IsWS(Head(data)) THEN 1 + FirstNonWS(Tail(data)) ELSE 0

\* db &= 0xDF
ClearBit5(db) == IF (db \div 32) % 2 = 1 THEN db - 32 ELSE db

HtmlSigMatch(sig, data) ==
  LET d == SubSeq(data, FirstNonWS(data) + 1, Len(data)) IN
  /\ Len(d) >= Len(sig) + 1
  /\ \A k \in 1..Len(sig) :
       sig[k] = (IF sig[k] >= 65 /\ sig[k] <= 90 THEN ClearBit5(d[k]) ELSE d[k])
  /\ IsTT(d[Len(sig) + 1])

HasPrefix(data, sig) == Len(data) >= Len(sig) /\ SubSeq(data, 1, Len(sig)) = sig

IsBinaryByte(b) ==
  b <= 8 \/ b = 11 \/ (b >= 14 /\ b <= 26) \/ (b >= 28 /\ b <= 31)

TextSigMatch(data) ==
  \A k \in (FirstNonWS(data) + 1)..Len(data) : ~IsBinaryByte(data[k])

DetectContentType(data) ==
  IF HtmlSigMatch(<<60, 66>>, data) \/ HtmlSigMatch(<<60, 80>>, data)
    THEN "text/html; charset=utf-8"
  ELSE IF HasPrefix(data, Pdf) THEN "application/pdf"
  ELSE IF TextSigMatch(data) THEN "text/plain; charset=utf-8"
  ELSE "application/octet-stream"

----------------------------------------------------------------------------
(* compress/gzip: what a gzip.Writer puts on its destination, and its      *)
(* inverse.  The destination receives a header, then deflate blocks, then  *)
(* a trailer holding a digest and the size of the uncompressed data.       *)

RECURSIVE Digest(_, _)
Digest(d, p) ==
  IF p = <<>> THEN d ELSE Digest((d * 31 + Head(p) + 1) % 65521, Tail(p))

GzHeader == [t |-> "hdr"]
GzBlock(data) == [t |-> "blk", data |-> data]
GzTrailer(crc, size) == [t |-> "trl", crc |-> crc, size |-> size]
Raw(data) == [t |-> "raw", data |-> data]

NewGzipWriter(dst) ==
  [dst |-> dst, wroteHeader |-> FALSE, pending |-> <<>>, crc |-> 0, size |-> 0,
   closed |-> FALSE]

\* gzip.Writer.Write: the items it sends to its destination and its next
\* state.  flush is the compressor's own decision to emit a block now.
GzWriteOut(z, p, flush) ==
  (IF z.wroteHeader THEN <<>> ELSE <<GzHeader>>)
    \o (IF flush /\ z.pending \o p # <<>> THEN <<GzBlock(z.pending \o p)>> ELSE <<>>)

GzWriteState(z, p, flush) ==
  [z EXCEPT !.wroteHeader = TRUE,
            !.pending = IF flush THEN <<>> ELSE z.pending \o p,
            !.crc = Digest(z.crc, p),
            !.size = z.size + Len(p)]

\* gzip.Writer.Close
GzCloseOut(z) ==
  IF z.closed THEN <<>>
  ELSE (IF z.wroteHeader THEN <<>> ELSE <<GzHeader>>)
         \o <<GzBlock(z.pending), GzTrailer(z.crc, z.size)>>

GzCloseState(z) == [z EXCEPT !.wroteHeader = TRUE, !.pending = <<>>, !.closed = TRUE]

\* gzip.Reader over a whole body: ok is FALSE when the body is no gzip stream.
Gunzip(b) ==
  LET n == Len(b)
      wellFormed ==
        /\ n >= 2
        /\ b[1].t = "hdr"
        /\ b[n].t = "trl"
        /\ \A k \in 2..(n - 1) : b[k].t = "blk"
      data == Concat([k \in 1..(n - 2) |-> b[k + 1].data])
  IN IF wellFormed /\ Digest(0, data) = b[n].crc /\ Len(data) = b[n].size
       THEN [ok |-> TRUE, data |-> data]
       ELSE [ok |-> FALSE, data |-> <<>>]

----------------------------------------------------------------------------
(* The underlying http.ResponseWriter. *)

NewSink == [hdr |-> EmptyHeader, status |-> 0, sent |-> EmptyHeader, body |-> <<>>]

\* WriteHeader: the first status wins and fixes the headers that are sent.
SinkWriteHeader(s, code) ==
  IF s.status # 0 THEN s ELSE [s EXCEPT !.status = code, !.sent = s.hdr]

\* Write: writes status 200 first when none was written.
SinkWrite(s, items) ==
  [SinkWriteHeader(s, 200) EXCEPT !.body = @ \o items]

----------------------------------------------------------------------------
(* The gate: HttpHandlerStruct.checkOrigins and HttpHandlerStruct.notAllowed. *)
(* r.Origin is r.Header.Get("Origin"): "" when the request has none.          *)

RECURSIVE checkOriginsFrom(_, _)
checkOriginsFrom(origins, r) ==
  IF origins = <<>> THEN FALSE
  ELSE IF Head(origins) = r.Origin THEN TRUE
  ELSE checkOriginsFrom(Tail(origins), r)

checkOrigins(fn, r) == checkOriginsFrom(fn.AllowedOrigins, r)

\* A gate that compares the method and never looks at the origin.
notAllowedMethodOnly(fn, r) ==
  IF \E k \in 1..Len(fn.AllowedMethods) : fn.AllowedMethods[k] = r.Method
    THEN "allowed" ELSE "notAllowed"

RECURSIVE notAllowedFrom(_, _, _)
notAllowedFrom(methods, fn, r) ==
  IF methods = <<>> THEN "notAllowed"
  ELSE IF Head(methods) = r.Method
          /\ (~(Len(fn.AllowedOrigins) > 0) \/ checkOrigins(fn, r))
    THEN "allowed"
  ELSE notAllowedFrom(Tail(methods), fn, r)

notAllowed(fn, r) == notAllowedFrom(fn.AllowedMethods, fn, r)

----------------------------------------------------------------------------
(* The loop over DefaultHTTPHeaders at the head of ServeHTTP. *)

\* A loop that takes every entry with at least two components.
RECURSIVE ApplyDefaultHeadersAtLeastTwo(_, _)
ApplyDefaultHeadersAtLeastTwo(list, h) ==
  IF list = <<>> THEN h
  ELSE ApplyDefaultHeadersAtLeastTwo(Tail(list),
         IF Len(Head(list)) >= 2 THEN HeaderSet(h, Head(list)[1], Head(list)[2]) ELSE h)

RECURSIVE ApplyDefaultHeaders(_, _)
ApplyDefaultHeaders(list, h) ==
  IF list = <<>> THEN h
  ELSE ApplyDefaultHeaders(Tail(list),
         IF Len(Head(list)) = 2 THEN HeaderSet(h, Head(list)[1], Head(list)[2]) ELSE h)

----------------------------------------------------------------------------
(* Writing through the writer that fn was handed.  S is the sinks, G the   *)
(* gzip writers; the result is both after the call.                        *)

\* A Write that is the embedded ResponseWriter's: the bytes go to the sink.
gzipResponseWriterWriteDirect(S, G, i, z, b, flush) ==
  [sink |-> [S EXCEPT ![i] = SinkWrite(@, <<Raw(b)>>)], gzs |-> G]

\* A Write that sniffs on every call.
gzipResponseWriterWriteAlwaysSniff(S, G, i, z, b, flush) ==
  LET S1 == [S EXCEPT ![i].hdr = HeaderSet(@, "Content-Type", DetectContentType(b))]
      out == GzWriteOut(G[z], b, flush)
      d == G[z].dst
  IN [sink |-> IF out = <<>> THEN S1 ELSE [S1 EXCEPT ![d] = SinkWrite(@, out)],
      gzs |-> [G EXCEPT ![z] = GzWriteState(@, b, flush)]]

\* gzipResponseWriter.Write, on the writer {Writer: gzs[z], ResponseWriter: sink i}
gzipResponseWriterWrite(S, G, i, z, b, flush) ==
  LET h == S[i].hdr
      S1 == IF HeaderGet(h, "Content-Type") = ""
              THEN [S EXCEPT ![i].hdr = HeaderSet(h, "Content-Type", DetectContentType(b))]
              ELSE S
      out == GzWriteOut(G[z], b, flush)
      d == G[z].dst
  IN [sink |-> IF out = <<>> THEN S1 ELSE [S1 EXCEPT ![d] = SinkWrite(@, out)],
      gzs |-> [G EXCEPT ![z] = GzWriteState(@, b, flush)]]

\* http.ResponseWriter.Write on the sink itself
ResponseWriterWrite(S, G, i, b) ==
  [sink |-> [S EXCEPT ![i] = SinkWrite(@, <<Raw(b)>>)], gzs |-> G]

WriterWrite(S, G, i, b, flush) ==
  IF w[i] = "gzr" THEN gzipResponseWriterWrite(S, G, i, gz[i], b, flush)
  ELSE ResponseWriterWrite(S, G, i, b)

----------------------------------------------------------------------------
(* HttpHandler.ServeHTTP, in the steps another request can interleave with. *)

\* ServeHTTP is entered with request r on a fresh ResponseWriter: the loop
\* over DefaultHTTPHeaders.
ServeHTTPEnter(i, r) ==
  /\ pc[i] = "idle"
  /\ req' = [req EXCEPT ![i] = r]
  /\ sink' = [sink EXCEPT ![i].hdr = ApplyDefaultHeaders(DefaultHTTPHeaders, @)]
  /\ pc' = [pc EXCEPT ![i] = "negotiate"]
  /\ UNCHANGED <<DefaultHTTPHeaders, builder, fnKind, fsys, build, active, w, gz, gzs, sel,
                 wrote, hops, outcome, handles, ret, primaryErr,
                 lookup, held>>

\* A negotiation that folds case before searching.
AcceptsGzipAnyCase(r) ==
  Contains(r.AcceptEncoding, Gzip) \/ Contains(r.AcceptEncoding, <<"G", "Z", "I", "P">>)

\* strings.Contains(r.Header.Get("Accept-Encoding"), "gzip")
AcceptsGzip(r) == Contains(r.AcceptEncoding, Gzip)

\* One gzip.Writer kept for every request.
NewWriterSlotShared(G) == 1

\* gzip.NewWriter: the object it returns is a new one.
NewWriterSlot(G) == Len(G) + 1

\* The encoding decision: fn gets w itself, or a gzipResponseWriter around a
\* new gzip.Writer whose Close is deferred.
Negotiate(i) ==
  /\ pc[i] = "negotiate"
  /\ IF ~AcceptsGzip(req[i])
       THEN /\ w' = [w EXCEPT ![i] = "sink"]
            /\ UNCHANGED <<sink, gz, gzs>>
       ELSE LET z == NewWriterSlot(gzs) IN
            /\ sink' = [sink EXCEPT ![i].hdr = HeaderSet(@, "Content-Encoding", "gzip")]
            /\ gzs' = IF z > Len(gzs) THEN Append(gzs, NewGzipWriter(i)) ELSE gzs
            /\ gz' = [gz EXCEPT ![i] = z]
            /\ w' = [w EXCEPT ![i] = "gzr"]
  /\ pc' = [pc EXCEPT ![i] = "call"]
  /\ UNCHANGED <<DefaultHTTPHeaders, builder, fnKind, fsys, build, active, req, sel, wrote,
                 hops, outcome, handles, ret, primaryErr,
                 lookup, held>>

\* fn(w, r): the closure Build returned picks a handler with notAllowed; a
\* plain HttpHandler and the one of NewFileServerHandler are fn themselves.
Call(i) ==
  /\ pc[i] = "call"
  /\ sel' = [sel EXCEPT ![i] =
       CASE fnKind = "gated" -> notAllowed(builder, req[i])
         [] fnKind = "plain" -> "plain"
         [] OTHER -> "fileserver"]
  /\ pc' = [pc EXCEPT ![i] = "handler"]
  /\ UNCHANGED <<DefaultHTTPHeaders, builder, fnKind, fsys, build, active, req, sink, w, gz,
                 gzs, wrote, hops, outcome, handles, ret, primaryErr,
                 lookup, held>>

\* The running handler is code of the caller: builder.Handler, a plain
\* handler, or builder.NotAllowHandler when there is one.
InUserHandler(i) ==
  /\ pc[i] = "handler"
  /\ \/ sel[i] \in {"allowed", "plain"}
     \/ sel[i] = "notAllowed" /\ builder.NotAllowHandler # "nil"

\* The handler calls Write(b) on the writer it was handed.
HandlerWrite(i, b, flush) ==
  /\ InUserHandler(i)
  /\ Len(wrote[i]) < MaxWrites
  /\ LET res == WriterWrite(sink, gzs, i, b, flush) IN
       /\ sink' = res.sink
       /\ gzs' = res.gzs
  /\ wrote' = [wrote EXCEPT ![i] = Append(@, b)]
  /\ UNCHANGED <<DefaultHTTPHeaders, builder, fnKind, fsys, build, active, req, pc, w, gz, sel,
                 hops, outcome, handles, ret, primaryErr,
                 lookup, held>>

\* The handler calls Header().Set("Content-Type", v); Header() of a
\* gzipResponseWriter is the one of the ResponseWriter it embeds.
HandlerSetContentType(i, v) ==
  /\ InUserHandler(i)
  /\ hops[i] < MaxHeaderOps
  /\ sink' = [sink EXCEPT ![i].hdr = HeaderSet(@, "Content-Type", v)]
  /\ hops' = [hops EXCEPT ![i] = @ + 1]
  /\ UNCHANGED <<DefaultHTTPHeaders, builder, fnKind, fsys, build, active, req, pc, w, gz, gzs,
                 sel, wrote, outcome, handles, ret, primaryErr,
                 lookup, held>>

\* The handler calls Header().Del("Content-Type").
HandlerDelContentType(i) ==
  /\ InUserHandler(i)
  /\ hops[i] < MaxHeaderOps
  /\ sink' = [sink EXCEPT ![i].hdr = HeaderDel(@, "Content-Type")]
  /\ hops' = [hops EXCEPT ![i] = @ + 1]
  /\ UNCHANGED <<DefaultHTTPHeaders, builder, fnKind, fsys, build, active, req, pc, w, gz, gzs,
                 sel, wrote, outcome, handles, ret, primaryErr,
                 lookup, held>>

\* The handler returns, or panics.
HandlerEnd(i, how) ==
  /\ InUserHandler(i)
  /\ pc' = [pc EXCEPT ![i] = "unwind"]
  /\ outcome' = [outcome EXCEPT ![i] = how]
  /\ UNCHANGED <<DefaultHTTPHeaders, builder, fnKind, fsys, build, active, req, sink, w, gz,
                 gzs, sel, wrote, hops, handles, ret, primaryErr,
                 lookup, held>>

HandlerReturn(i) == HandlerEnd(i, "ok")

HandlerPanic(i) == HandlerEnd(i, "panic")

\* The not-allowed handler of Build when NotAllowHandler is nil:
\* fmt.Fprint(rw, "Bad Request").
DefaultNotAllowed(i, flush) ==
  /\ pc[i] = "handler"
  /\ sel[i] = "notAllowed"
  /\ builder.NotAllowHandler = "nil"
  /\ LET res == WriterWrite(sink, gzs, i, BadRequest, flush) IN
       /\ sink' = res.sink
       /\ gzs' = res.gzs
  /\ wrote' = [wrote EXCEPT ![i] = Append(@, BadRequest)]
  /\ pc' = [pc EXCEPT ![i] = "unwind"]
  /\ outcome' = [outcome EXCEPT ![i] = "ok"]
  /\ UNCHANGED <<DefaultHTTPHeaders, builder, fnKind, fsys, build, active, req, w, gz, sel,
                 hops, handles, ret, primaryErr,
                 lookup, held>>

\* A Close that is a plain statement after fn(gzr, r): a panic skips it.
CloseAfterReturnOnly(i) == w[i] = "gzr" /\ outcome[i] = "ok"

\* What runs as ServeHTTP is left: the deferred gz.Close() of the gzip
\* branch, whether fn returned or panicked.  TRUE: Close runs.
DeferredCloseRuns(i) == w[i] = "gzr"

ServeHTTPExit(i) ==
  /\ pc[i] = "unwind"
  /\ IF DeferredCloseRuns(i)
       THEN LET z == gzs[gz[i]]
                out == GzCloseOut(z) IN
            /\ sink' = IF out = <<>> THEN sink
                       ELSE [sink EXCEPT ![z.dst] = SinkWrite(@, out)]
            /\ gzs' = [gzs EXCEPT ![gz[i]] = GzCloseState(@)]
       ELSE UNCHANGED <<sink, gzs>>
  /\ pc' = [pc EXCEPT ![i] = "done"]
  /\ UNCHANGED <<DefaultHTTPHeaders, builder, fnKind, fsys, build, active, req, w, gz, sel,
                 wrote, hops, outcome, handles, ret, primaryErr,
                 lookup, held>>

----------------------------------------------------------------------------
(* The static file resolver.  A path is its sequence of segments; fsys     *)
(* gives the kind of each path under the root: "file", "dir", "none"       *)
(* (absent) or "denied" (present, not readable).                           *)

NotFoundDoc == <<"error404.html">>

IndexPage == "index.html"

Kind(p) == IF p \in DOMAIN fsys THEN fsys[p] ELSE "none"

NoErr == [kind |-> "nil", path |-> <<>>]

\* The error of http.Dir.Open(p), NoErr when it opens.
DirOpenErr(p) ==
  CASE Kind(p) = "none" -> [kind |-> "notexist", path |-> p]
    [] Kind(p) = "denied" -> [kind |-> "permission", path |-> p]
    [] OTHER -> NoErr

NewFile(p, i) == [path |-> p, open |-> TRUE, by |-> i]

\* An errorHandler that writes the status before it sets the header.
errorHandlerStatusFirst(H, s, i, orig) ==
  LET err == DirOpenErr(<<"error404.html">>) IN
  IF err # NoErr
    THEN [handles |-> H, sink |-> s, f |-> 0, err |-> err, orig |-> orig]
    ELSE [handles |-> Append(H, NewFile(<<"error404.html">>, i)),
          sink |-> [SinkWriteHeader(s, 404) EXCEPT
                      !.hdr = HeaderSet(@, "Content-Type", "text/html; charset=utf-8")],
          f |-> Len(H) + 1, err |-> NoErr, orig |-> orig]

\* The closure errorHandler of Open, with H the files that exist and s the
\* ResponseWriter nfs.w; orig is the failure that led here.
errorHandler(H, s, i, orig) ==
  LET err == DirOpenErr(NotFoundDoc) IN
  IF err # NoErr
    THEN [handles |-> H, sink |-> s, f |-> 0, err |-> err, orig |-> orig]
    ELSE [handles |-> Append(H, NewFile(NotFoundDoc, i)),
          sink |-> SinkWriteHeader(
                     [s EXCEPT !.hdr = HeaderSet(@, "Content-Type",
                                                 "text/html; charset=utf-8")], 404),
          f |-> Len(H) + 1, err |-> NoErr, orig |-> orig]

\* neuteredFileSystem.Open(path)
Open(H, s, i, path) ==
  LET err == DirOpenErr(path) IN
  IF err # NoErr THEN errorHandler(H, s, i, err)
  ELSE LET f == Len(H) + 1
           H1 == Append(H, NewFile(path, i)) IN
       IF Kind(path) = "dir"
         THEN LET index == Append(path, IndexPage)
                  ierr == DirOpenErr(index) IN
              IF ierr # NoErr
                THEN errorHandler([H1 EXCEPT ![f].open = FALSE], s, i, ierr)
                ELSE [handles |-> Append(H1, NewFile(index, i)), sink |-> s,
                      f |-> f, err |-> NoErr, orig |-> NoErr]
         ELSE [handles |-> H1, sink |-> s, f |-> f, err |-> NoErr, orig |-> NoErr]

----------------------------------------------------------------------------
(* http.FileServer over neuteredFileSystem: fileHandler.ServeHTTP,         *)
(* serveFile, serveContent, localRedirect, Error and toHTTPError of        *)
(* net/http, which the handler of NewFileServerHandler runs.  The request  *)
(* carries no conditional and no Range header.  r.URL.Path is req.Path     *)
(* (its segments) and req.Slash (whether it ends in "/"); serveFile opens  *)
(* path.Clean of it, the segments.                                         *)

\* The bytes of the file at p, and the modification time of every file.
FileBytes(p) ==
  CASE p = <<"a.txt">> -> Txt
    [] p = <<"blob">> -> Bin
    [] p = <<"empty.txt">> -> <<>>
    [] OTHER -> Html

ModTime == "Thu, 01 Jan 2026 00:00:00 GMT"

Base(p) == IF p = <<>> THEN "/" ELSE p[Len(p)]

\* mime.TypeByExtension(filepath.Ext(name)), "" for a name it does not know
TypeByExtension(name) ==
  CASE name \in {"index.html", "error404.html"} -> "text/html; charset=utf-8"
    [] name \in {"a.txt", "empty.txt", "missing.txt"} -> "text/plain; charset=utf-8"
    [] OTHER -> ""

\* strconv.FormatInt(n, 10), for the sizes of the files above
Itoa(n) == <<"0", "1", "2", "3">>[n + 1]

\* path.Base(url) + "/" and "../" + path.Base(url), for the names of the requests
BaseSlash(base) ==
  CASE base = "a.txt" -> "a.txt/"
    [] base = "blob" -> "blob/"
    [] base = "docs" -> "docs/"
    [] base = "missing.txt" -> "missing.txt/"
    [] base = "index.html" -> "index.html/"
    [] base = "error404.html" -> "error404.html/"
    [] base = "/" -> "//"

UpTo(base) ==
  CASE base = "a.txt" -> "../a.txt"
    [] base = "blob" -> "../blob"
    [] base = "docs" -> "../docs"
    [] base = "missing.txt" -> "../missing.txt"
    [] base = "index.html" -> "../index.html"
    [] base = "error404.html" -> "../error404.html"
    [] base = "/" -> "..//"

\* The names a directory can hold, in the order dirList sorts them, and
\* their bytes.
NameOrder == <<"a.txt", "blob", "docs", "error404.html", "index.html">>

NameBytes(n) ==
  CASE n = "a.txt" -> <<97, 46, 116, 120, 116>>
    [] n = "blob" -> <<98, 108, 111, 98>>
    [] n = "docs" -> <<100, 111, 99, 115>>
    [] n = "error404.html" -> <<101, 114, 114, 111, 114, 52, 48, 52, 46, 104, 116, 109, 108>>
    [] n = "index.html" -> <<105, 110, 100, 101, 120, 46, 104, 116, 109, 108>>

NotFoundMsg == <<52, 48, 52, 32, 112, 97, 103, 101, 32, 110, 111, 116, 32, 102, 111, 117, 110, 100, 10>>
ForbiddenMsg == <<52, 48, 51, 32, 70, 111, 114, 98, 105, 100, 100, 101, 110, 10>>
TraverseMsg == <<104, 116, 116, 112, 58, 32, 97, 116, 116, 101, 109, 112, 116, 105, 110, 103, 32, 116, 111, 32, 116, 114, 97, 118, 101, 114, 115, 101, 32, 97, 32, 110, 111, 110, 45, 100, 105, 114, 101, 99, 116, 111, 114, 121, 10>>

\* toHTTPError
ErrorStatus(err) == IF err.kind = "notexist" THEN 404 ELSE 403

ErrorMsg(err) == IF err.kind = "notexist" THEN NotFoundMsg ELSE ForbiddenMsg

\* The result of a call that wrote nothing through the writer.
NoWrite(S, G) == [sink |-> S, gzs |-> G, wrote |-> <<>>]

\* http.Error as serveFile calls it.  A build that strips the headers of the
\* content first (build.strip) deletes Content-Encoding, Last-Modified and
\* Content-Length.
Error(S, G, i, msg, code, flush) ==
  LET h0 == S[i].hdr
      h1 == IF build.strip
              THEN HeaderDel(HeaderDel(HeaderDel(h0, "Content-Encoding"),
                                       "Last-Modified"), "Content-Length")
              ELSE h0
      h2 == HeaderSet(HeaderSet(h1, "Content-Type", "text/plain; charset=utf-8"),
                      "X-Content-Type-Options", "nosniff")
      S1 == [S EXCEPT ![i] = SinkWriteHeader([@ EXCEPT !.hdr = h2], code)]
      res == WriterWrite(S1, G, i, msg, flush)
  IN [sink |-> res.sink, gzs |-> res.gzs, wrote |-> <<msg>>]

\* localRedirect, for a request without a query
localRedirect(S, G, i, newPath) ==
  NoWrite([S EXCEPT ![i] = SinkWriteHeader(
             [@ EXCEPT !.hdr = HeaderSet(@, "Location", newPath)], 301)], G)

\* serveContent for the open file at p
serveContent(S, G, i, p, flush) ==
  LET content == FileBytes(p)
      h0 == HeaderSet(S[i].hdr, "Last-Modified", ModTime)
      ext == TypeByExtension(Base(p))
      h1 == IF h0["Content-Type"] = <<>>
              THEN HeaderSet(h0, "Content-Type",
                             IF ext = "" THEN DetectContentType(content) ELSE ext)
              ELSE h0
      h2 == HeaderSet(h1, "Accept-Ranges", "bytes")
      h3 == IF HeaderGet(h2, "Content-Encoding") = ""
              THEN HeaderSet(h2, "Content-Length", Itoa(Len(content)))
              ELSE h2
      S1 == [S EXCEPT ![i] = SinkWriteHeader([@ EXCEPT !.hdr = h3], 200)]
  IN IF req[i].Method # "HEAD" /\ content # <<>>
       THEN LET res == WriterWrite(S1, G, i, content, flush) IN
            [sink |-> res.sink, gzs |-> res.gzs, wrote |-> <<content>>]
       ELSE NoWrite(S1, G)

\* Write, once for each of chunks in turn.
RECURSIVE WriteAll(_, _, _, _, _)
WriteAll(S, G, i, chunks, flush) ==
  IF chunks = <<>> THEN [sink |-> S, gzs |-> G]
  ELSE LET res == WriterWrite(S, G, i, Head(chunks), flush) IN
       WriteAll(res.sink, res.gzs, i, Tail(chunks), flush)

\* The line of dirList for the entry n of the directory at p.
EntryLine(p, n) ==
  LET name == NameBytes(n) \o (IF Kind(Append(p, n)) = "dir" THEN <<47>> ELSE <<>>) IN
  <<60, 97, 32, 104, 114, 101, 102, 61, 34>> \o name \o <<34, 62>> \o name \o <<60, 47, 97, 62, 10>>

\* The writes of dirList for the directory at p.  A build with build.doctype
\* starts the listing with a doctype and a viewport line.
Listing(p) ==
  LET entries == SelectSeq(NameOrder, LAMBDA n : Kind(Append(p, n)) # "none") IN
  (IF build.doctype
     THEN << <<60, 33, 100, 111, 99, 116, 121, 112, 101, 32, 104, 116, 109, 108, 62, 10>>,
             <<60, 109, 101, 116, 97, 32, 110, 97, 109, 101, 61, 34, 118, 105, 101, 119, 112, 111, 114, 116, 34, 32, 99, 111, 110, 116, 101, 110, 116, 61, 34, 119, 105, 100, 116, 104, 61, 100, 101, 118, 105, 99, 101, 45, 119, 105, 100, 116, 104, 34, 62, 10>> >>
     ELSE <<>>)
  \o << <<60, 112, 114, 101, 62, 10>> >>
  \o [k \in 1..Len(entries) |-> EntryLine(p, entries[k])]
  \o << <<60, 47, 112, 114, 101, 62, 10>> >>

\* serveFile for a directory that is left without an index page:
\* Last-Modified, then dirList.
dirList(S, G, i, p, flush) ==
  LET S1 == [S EXCEPT ![i].hdr = HeaderSet(HeaderSet(@, "Last-Modified", ModTime),
                                           "Content-Type", "text/html; charset=utf-8")]
      res == WriteAll(S1, G, i, Listing(p), flush)
  IN [sink |-> res.sink, gzs |-> res.gzs, wrote |-> Listing(p)]

CloseAll(H, fs) == [h \in DOMAIN H |-> IF h \in fs THEN [H[h] EXCEPT !.open = FALSE] ELSE H[h]]

\* A call nfs.Open(p) made for request i, and what it leaves behind.
CallOpen(i, p) ==
  LET res == Open(handles, sink[i], i, p) IN
  /\ handles' = res.handles
  /\ sink' = [sink EXCEPT ![i] = res.sink]
  /\ ret' = [ret EXCEPT ![i] = [f |-> res.f, err |-> res.err]]
  /\ primaryErr' = [primaryErr EXCEPT ![i] = res.orig]
  /\ lookup' = [lookup EXCEPT ![i] = p]

\* The end of serveFile with result res of what it wrote: the deferred Close
\* of every file it holds, fs, runs.
FinishServe(i, res, fs) ==
  /\ sink' = res.sink
  /\ gzs' = res.gzs
  /\ wrote' = [wrote EXCEPT ![i] = @ \o res.wrote]
  /\ handles' = CloseAll(handles, fs)
  /\ held' = [held EXCEPT ![i] = {}]
  /\ pc' = [pc EXCEPT ![i] = "unwind"]
  /\ outcome' = [outcome EXCEPT ![i] = "ok"]

\* serveFile, entered: a URL that ends in /index.html is redirected to ./
\* and nothing is opened.
FsRedirectIndex(i) ==
  /\ pc[i] = "handler"
  /\ sel[i] = "fileserver"
  /\ req[i].Path # <<>> /\ Base(req[i].Path) = IndexPage /\ ~req[i].Slash
  /\ FinishServe(i, localRedirect(sink, gzs, i, "./"), {})
  /\ UNCHANGED <<DefaultHTTPHeaders, builder, fnKind, fsys, build, active, req, w, gz,
                 sel, hops, ret, primaryErr, lookup>>

\* serveFile, entered: fs.Open(name) through neuteredFileSystem.
FsOpen(i) ==
  /\ pc[i] = "handler"
  /\ sel[i] = "fileserver"
  /\ ~(req[i].Path # <<>> /\ Base(req[i].Path) = IndexPage /\ ~req[i].Slash)
  /\ CallOpen(i, req[i].Path)
  /\ held' = [held EXCEPT ![i] =
       IF ret'[i].err = NoErr THEN {ret'[i].f} ELSE {}]
  /\ pc' = [pc EXCEPT ![i] = "opened"]
  /\ UNCHANGED <<DefaultHTTPHeaders, builder, fnKind, fsys, build, active, req, w, gz,
                 gzs, sel, wrote, hops, outcome>>

\* Whether the file Open returned is a directory (f.Stat().IsDir()).
IsDir(f) == Kind(handles[f].path) = "dir"

\* serveFile goes on to the index page: Open returned a directory and the
\* URL ends in "/".
WantsIndex(i) == ret[i].err = NoErr /\ IsDir(ret[i].f) /\ req[i].Slash

\* serveFile after Open, when it does not go on to the index page: the
\* error answer, a redirect to the canonical path, or the file's content.
FsServe(i, flush) ==
  /\ pc[i] = "opened"
  /\ ~WantsIndex(i)
  /\ LET f == ret[i].f
         res ==
           IF ret[i].err # NoErr
             THEN Error(sink, gzs, i, ErrorMsg(ret[i].err), ErrorStatus(ret[i].err), flush)
           ELSE IF IsDir(f)
             THEN localRedirect(sink, gzs, i, BaseSlash(Base(req[i].Path)))
           ELSE IF req[i].Slash
             THEN IF build.traverse /\ Base(req[i].Path) = "/"
                    THEN Error(sink, gzs, i, TraverseMsg, 500, flush)
                    ELSE localRedirect(sink, gzs, i, UpTo(Base(req[i].Path)))
           ELSE serveContent(sink, gzs, i, handles[f].path, flush)
     IN FinishServe(i, res, held[i])
  /\ UNCHANGED <<DefaultHTTPHeaders, builder, fnKind, fsys, build, active, req, w, gz,
                 sel, hops, ret, primaryErr, lookup>>

\* serveFile opens <name>/index.html, through neuteredFileSystem again.
FsOpenIndex(i) ==
  /\ pc[i] = "opened"
  /\ WantsIndex(i)
  /\ CallOpen(i, Append(req[i].Path, IndexPage))
  /\ held' = [held EXCEPT ![i] =
       IF ret'[i].err = NoErr THEN @ \cup {ret'[i].f} ELSE @]
  /\ pc' = [pc EXCEPT ![i] = "indexed"]
  /\ UNCHANGED <<DefaultHTTPHeaders, builder, fnKind, fsys, build, active, req, w, gz,
                 gzs, sel, wrote, hops, outcome>>

\* serveFile after the index page was opened: its content, or the listing
\* of the directory when it did not open.
FsServeIndex(i, flush) ==
  /\ pc[i] = "indexed"
  /\ LET d == IF ret[i].err = NoErr THEN handles[ret[i].f].path ELSE req[i].Path
         res == IF Kind(d) = "dir"
                  THEN dirList(sink, gzs, i, d, flush)
                  ELSE serveContent(sink, gzs, i, d, flush)
     IN FinishServe(i, res, held[i])
  /\ UNCHANGED <<DefaultHTTPHeaders, builder, fnKind, fsys, build, active, req, w, gz,
                 sel, hops, ret, primaryErr, lookup>>

----------------------------------------------------------------------------
(* Configurations and requests. *)

RECURSIVE SeqsUpTo(_, _)
SeqsUpTo(S, n) ==
  IF n = 0 THEN {<<>>}
  ELSE LET shorter == SeqsUpTo(S, n - 1) IN
       shorter \cup {Append(q, x) : q \in shorter, x \in S}

Methods == {"GET", "POST", "DELETE"}

Origins == {"", "https://example.com", "https://evil.com"}

AcceptEncodings ==
  { <<>>, Gzip, <<"x", ",">> \o Gzip, <<"g", "z", "i">>, <<"G", "Z", "I", "P">> }

\* Path and Slash are r.URL.Path: its segments and whether it ends in "/".
Request(m, o, ae, p) ==
  [Method |-> m, Origin |-> o, AcceptEncoding |-> ae, Path |-> p, Slash |-> p = <<>>]

NoRequest == Request("", "", <<>>, <<>>)

\* Every gate with allow-lists of at most MaxList entries.
AllBuilders ==
  [AllowedMethods : SeqsUpTo({"GET", "POST"}, MaxList),
   AllowedOrigins : SeqsUpTo({"https://example.com", ""}, MaxList),
   NotAllowHandler : {"nil", "set"}]

SomeBuilders ==
  { [AllowedMethods |-> <<"GET", "POST">>, AllowedOrigins |-> <<>>,
     NotAllowHandler |-> "set"],
    [AllowedMethods |-> <<"GET">>, AllowedOrigins |-> <<"https://example.com">>,
     NotAllowHandler |-> "nil"] }

\* A default header list with entries of one, two and three components, a
\* name given twice, and names in lower case.
MixedDefaults ==
  << <<"x-frame-options", "SAMEORIGIN">>, <<"bad">>, <<"X-Frame-Options", "DENY">>,
     <<"Content-Type", "text/css", "x">>, <<"content-encoding", "br">> >>

DefaultHeaderLists ==
  { <<>>, MixedDefaults, << <<>>, <<"Content-Type", "text/css">> >> }

FsPaths ==
  { <<>>, <<"a.txt">>, <<"blob">>, <<"docs">>, <<"docs", IndexPage>>, <<IndexPage>>,
    NotFoundDoc }

\* The trees: the root is a directory, and nothing lies under what is no directory.
Trees ==
  { t \in [FsPaths -> {"file", "dir", "none", "denied"}] :
      /\ t[<<>>] = "dir"
      /\ t[<<"a.txt">>] \in {"file", "denied"}
      /\ t[<<"blob">>] = "file"
      /\ t[<<"docs">>] = "dir"
      /\ t[<<"docs", IndexPage>>] \in {"file", "dir", "none"}
      /\ t[<<IndexPage>>] \in {"file", "dir", "none"}
      /\ t[NotFoundDoc] \in {"file", "none", "denied"} }

\* The builds of net/http.
Builds ==
  { b \in [traverse : BOOLEAN, strip : BOOLEAN, doctype : BOOLEAN] :
      b.strip => b.traverse }

LatestBuild == [traverse |-> TRUE, strip |-> TRUE, doctype |-> TRUE]

EmptyTree == [p \in FsPaths |-> IF p = <<>> THEN "dir" ELSE "none"]

GateRequests ==
  { Request(m, o, ae, <<>>) : m \in Methods, o \in Origins, ae \in {<<>>, Gzip} }

EnvelopeRequests ==
  { Request(m, "https://example.com", ae, <<>>) :
      m \in {"GET", "DELETE"}, ae \in AcceptEncodings }

FsUrls ==
  { u \in [Path : { <<>>, <<"a.txt">>, <<"blob">>, <<"docs">>, <<"missing.txt">>,
                    <<IndexPage>>, <<"docs", IndexPage>> },
           Slash : BOOLEAN] :
      u.Path = <<>> => u.Slash }

FsRequests ==
  { [Request(m, "", ae, u.Path) EXCEPT !.Slash = u.Slash] :
      m \in {"GET", "HEAD"}, ae \in {<<>>, Gzip}, u \in FsUrls }

ConcRequests ==
  { Request(m, "", ae, <<>>) : m \in {"GET", "DELETE"}, ae \in {<<>>, Gzip} }

----------------------------------------------------------------------------
(* The state after construction: nothing is being served. *)

InitRequests ==
  /\ req = [i \in Procs |-> NoRequest]
  /\ pc = [i \in Procs |-> "idle"]
  /\ sink = [i \in Procs |-> NewSink]
  /\ w = [i \in Procs |-> "none"]
  /\ gz = [i \in Procs |-> 0]
  /\ gzs = <<>>
  /\ sel = [i \in Procs |-> "none"]
  /\ wrote = [i \in Procs |-> <<>>]
  /\ hops = [i \in Procs |-> 0]
  /\ outcome = [i \in Procs |-> "none"]
  /\ handles = <<>>
  /\ ret = [i \in Procs |-> [f |-> 0, err |-> NoErr]]
  /\ primaryErr = [i \in Procs |-> NoErr]
  /\ lookup = [i \in Procs |-> <<>>]
  /\ held = [i \in Procs |-> {}]

\* One request at a time through a gated or a plain handler.
Init ==
  /\ DefaultHTTPHeaders \in DefaultHeaderLists
  /\ builder \in SomeBuilders
  /\ fnKind \in {"gated", "plain"}
  /\ fsys = EmptyTree
  /\ build = LatestBuild
  /\ active = {1}
  /\ InitRequests

Next ==
  \/ \E i \in active, r \in EnvelopeRequests : ServeHTTPEnter(i, r)
  \/ \E i \in active : Negotiate(i)
  \/ \E i \in active : Call(i)
  \/ \E i \in active, b \in Chunks, flush \in BOOLEAN : HandlerWrite(i, b, flush)
  \/ \E i \in active, v \in {"", "text/css"} : HandlerSetContentType(i, v)
  \/ \E i \in active : HandlerDelContentType(i)
  \/ \E i \in active : HandlerReturn(i)
  \/ \E i \in active : HandlerPanic(i)
  \/ \E i \in active, flush \in BOOLEAN : DefaultNotAllowed(i, flush)
  \/ \E i \in active : ServeHTTPExit(i)

Spec == Init /\ [][Next]_vars

\* One request at a time through every gate.
InitGate ==
  /\ DefaultHTTPHeaders = <<>>
  /\ builder \in AllBuilders
  /\ fnKind = "gated"
  /\ fsys = EmptyTree
  /\ build = LatestBuild
  /\ active = {1}
  /\ InitRequests

NextGate ==
  \/ \E i \in active, r \in GateRequests : ServeHTTPEnter(i, r)
  \/ \E i \in active : Negotiate(i)
  \/ \E i \in active : Call(i)
  \/ \E i \in active : HandlerReturn(i)
  \/ \E i \in active, flush \in BOOLEAN : DefaultNotAllowed(i, flush)
  \/ \E i \in active : ServeHTTPExit(i)

SpecGate == InitGate /\ [][NextGate]_vars

\* One request at a time through the handler of NewFileServerHandler.
InitFS ==
  /\ DefaultHTTPHeaders \in DefaultHeaderLists
  /\ builder \in SomeBuilders
  /\ fnKind = "fileserver"
  /\ fsys \in Trees
  /\ build \in Builds
  /\ active = {1}
  /\ InitRequests

NextFS ==
  \/ \E i \in active, r \in FsRequests : ServeHTTPEnter(i, r)
  \/ \E i \in active : Negotiate(i)
  \/ \E i \in active : Call(i)
  \/ \E i \in active : FsRedirectIndex(i)
  \/ \E i \in active : FsOpen(i)
  \/ \E i \in active, flush \in BOOLEAN : FsServe(i, flush)
  \/ \E i \in active : FsOpenIndex(i)
  \/ \E i \in active, flush \in BOOLEAN : FsServeIndex(i, flush)
  \/ \E i \in active : ServeHTTPExit(i)

SpecFS == InitFS /\ [][NextFS]_vars

\* Two requests served concurrently by the same built handler.
InitConc ==
  /\ DefaultHTTPHeaders = MixedDefaults
  /\ builder \in SomeBuilders
  /\ fnKind = "gated"
  /\ fsys = EmptyTree
  /\ build = LatestBuild
  /\ active = Procs
  /\ InitRequests

NextConc ==
  \/ \E i \in active, r \in ConcRequests : ServeHTTPEnter(i, r)
  \/ \E i \in active : Negotiate(i)
  \/ \E i \in active : Call(i)
  \/ \E i \in active, b \in {Html, Bin}, flush \in BOOLEAN : HandlerWrite(i, b, flush)
  \/ \E i \in active : HandlerReturn(i)
  \/ \E i \in active : HandlerPanic(i)
  \/ \E i \in active, flush \in BOOLEAN : DefaultNotAllowed(i, flush)
  \/ \E i \in active : ServeHTTPExit(i)

SpecConc == InitConc /\ [][NextConc]_vars

----------------------------------------------------------------------------
(* Properties. *)

Max(S) == CHOOSE x \in S : \A y \in S : y <= x

\* Membership in both allow-lists, said without the loops of the code.
GateAllows(b, r) ==
  /\ \E k \in DOMAIN b.AllowedMethods : b.AllowedMethods[k] = r.Method
  /\ \/ b.AllowedOrigins = <<>>
     \/ \E k \in DOMAIN b.AllowedOrigins : b.AllowedOrigins[k] = r.Origin

\* What the default header list leaves under canonical name k: the value of
\* the last entry of exactly two components that names k.
DefaultValue(k) ==
  LET D == DefaultHTTPHeaders
      at == {n \in DOMAIN D : Len(D[n]) = 2 /\ Canon(D[n][1]) = k}
  IN IF at = {} THEN <<>> ELSE <<D[Max(at)][2]>>

\* The bytes of a body's blocks (or raw writes), in order.
RECURSIVE Payload(_)
Payload(b) ==
  IF b = <<>> THEN <<>>
  ELSE (IF Head(b).t \in {"blk", "raw"} THEN Head(b).data ELSE <<>>) \o Payload(Tail(b))

Started(i) == pc[i] \in {"call", "handler", "opened", "indexed", "unwind", "done"}

WantsGzip(i) == Contains(req[i].AcceptEncoding, Gzip)

ContentType(i) == HeaderGet(sink[i].hdr, "Content-Type")

\* C1: the handler built by Build selects the allowed handler exactly when
\* the method equals an entry of AllowedMethods and AllowedOrigins is empty
\* or holds the request's Origin; in every other case, an empty
\* AllowedMethods included, it selects the not-allowed handler.
C1_GateSelection ==
  \A i \in active :
    sel[i] # "none" =>
      /\ sel[i] \in {"allowed", "notAllowed"}
      /\ sel[i] = "allowed" <=> GateAllows(builder, req[i])
      /\ builder.AllowedMethods = <<>> => sel[i] = "notAllowed"

C1_Witness ==
  /\ sel[1] = "allowed"
  /\ Len(builder.AllowedOrigins) = 2
  /\ Len(builder.AllowedMethods) = 2
  /\ req[1].Method = builder.AllowedMethods[2]
  /\ req[1].Origin = builder.AllowedOrigins[2]
  /\ req[1].Origin # builder.AllowedOrigins[1]

\* C2: for a request whose Accept-Encoding does not contain "gzip",
\* ServeHTTP adds no Content-Encoding (the header is what the default
\* headers left), creates no compressing writer, and the handler's bytes
\* reach the original ResponseWriter as written.
C2_NoGzipUntouched ==
  \A i \in active :
    (Started(i) /\ ~WantsGzip(i)) =>
      /\ w[i] = "sink"
      /\ gz[i] = 0
      /\ sink[i].hdr["Content-Encoding"] = DefaultValue("Content-Encoding")
      /\ \A k \in DOMAIN sink[i].body : sink[i].body[k].t = "raw"
      /\ Payload(sink[i].body) = Concat(wrote[i])

C2_Witness ==
  /\ pc[1] = "done"
  /\ req[1].AcceptEncoding = <<"G", "Z", "I", "P">>
  /\ Len(wrote[1]) = 2
  /\ sink[1].hdr["Content-Encoding"] = <<>>

\* C3: for a request whose Accept-Encoding contains "gzip", Content-Encoding
\* is "gzip" before the handler runs; the handler keeps the compressing
\* writer for the whole response; every byte it writes goes, in order, to
\* the compression stream and none directly to the sink; and the body the
\* sink holds once the stream is closed decompresses to the bytes written.
C3_GzipWholeBody ==
  \A i \in active :
    (Started(i) /\ WantsGzip(i)) =>
      /\ sink[i].hdr["Content-Encoding"] = <<"gzip">>
      /\ w[i] = "gzr"
      /\ gz[i] \in DOMAIN gzs
      /\ \A k \in DOMAIN sink[i].body : sink[i].body[k].t # "raw"
      /\ Payload(sink[i].body) \o gzs[gz[i]].pending = Concat(wrote[i])
      /\ pc[i] = "done" =>
           /\ Gunzip(sink[i].body).ok
           /\ Gunzip(sink[i].body).data = Concat(wrote[i])

C3_Witness ==
  /\ pc[1] = "done"
  /\ req[1].AcceptEncoding = <<"x", ",">> \o Gzip
  /\ wrote[1] = <<Html, Bin>>
  /\ Len(sink[1].body) = 4
  /\ Gunzip(sink[1].body).data = Html \o Bin

\* C4: when ServeHTTP engaged compression, the stream it created is closed,
\* with its trailer on the sink, by the time ServeHTTP is left, whether the
\* handler returned or panicked; a panic stays a panic.
C4_StreamClosedOnExit ==
  /\ [](\A i \in active :
          (pc[i] = "done" /\ w[i] = "gzr") =>
            /\ gzs[gz[i]].closed
            /\ sink[i].body # <<>>
            /\ sink[i].body[Len(sink[i].body)].t = "trl"
            /\ outcome[i] \in {"ok", "panic"})
  /\ [][\A i \in active : outcome[i] = "panic" => outcome'[i] = "panic"]_vars

C4_Witness ==
  /\ pc[1] = "done"
  /\ outcome[1] = "panic"
  /\ w[1] = "gzr"
  /\ gzs[gz[1]].closed
  /\ Len(wrote[1]) = 1

\* A step in which the handler of request i writes through the compressing writer.
GzrWriteStep(i) == w[i] = "gzr" /\ Len(wrote'[i]) = Len(wrote[i]) + 1

Written(i) == wrote'[i][Len(wrote'[i])]

\* C5 as stated: Content-Type unset at the first Write is sniffed from the
\* bytes of that call; no second or later Write changes Content-Type; a
\* (non-empty) Content-Type the handler set is never overwritten by a Write.
C5_Original ==
  [][\A i \in active :
       GzrWriteStep(i) =>
         /\ (Len(wrote[i]) = 0 /\ sink[i].hdr["Content-Type"] = <<>>) =>
              sink'[i].hdr["Content-Type"] = <<DetectContentType(Written(i))>>
         /\ Len(wrote[i]) >= 1 =>
              sink'[i].hdr["Content-Type"] = sink[i].hdr["Content-Type"]
         /\ ContentType(i) # "" =>
              sink'[i].hdr["Content-Type"] = sink[i].hdr["Content-Type"]]_vars

\* C5 as amended: a Write, first or later, that finds Content-Type empty
\* (never set, deleted, or set to "") sets it to the type sniffed from the
\* bytes of that call alone; a Write that finds a non-empty Content-Type
\* leaves it as it is.  When neither the default headers nor the handler
\* touch Content-Type, it is the type sniffed from the first Write.
C5_SniffWhenEmpty ==
  /\ [][\A i \in active :
          GzrWriteStep(i) =>
            IF ContentType(i) = ""
              THEN sink'[i].hdr["Content-Type"] = <<DetectContentType(Written(i))>>
              ELSE sink'[i].hdr["Content-Type"] = sink[i].hdr["Content-Type"]]_vars
  /\ [](\A i \in active :
          (w[i] = "gzr" /\ wrote[i] # <<>> /\ hops[i] = 0
             /\ DefaultValue("Content-Type") = <<>>) =>
            sink[i].hdr["Content-Type"] = <<DetectContentType(wrote[i][1])>>)

\* The handler deleted Content-Type between two writes and the second
\* write set it from its own bytes.
C5_Witness ==
  /\ w[1] = "gzr"
  /\ wrote[1] = <<Html, Bin>>
  /\ hops[1] = 1
  /\ sink[1].sent["Content-Type"] = <<"text/html; charset=utf-8">>
  /\ sink[1].hdr["Content-Type"] = <<"application/octet-stream">>

\* Whether the primary lookup of Open fails, and whether the not-found
\* document opens, read off the tree.
Fails(p) == Kind(p) \in {"none", "denied"}

PrimaryFails(p) == Fails(p) \/ (Kind(p) = "dir" /\ Fails(Append(p, "index.html")))

\* C6: when the primary lookup fails and /error404.html opens, Open sets
\* Content-Type to "text/html; charset=utf-8", then status 404, and returns
\* the handle of /error404.html; when the primary lookup succeeds it returns
\* the handle of the requested path and sets neither status nor Content-Type.
C6_NotFoundSubstitution ==
  \A i \in active :
    pc[i] \in {"opened", "indexed"} =>
      LET p == lookup[i] IN
      /\ (PrimaryFails(p) /\ ~Fails(<<"error404.html">>)) =>
           /\ sink[i].status = 404
           /\ sink[i].sent["Content-Type"] = <<"text/html; charset=utf-8">>
           /\ sink[i].hdr["Content-Type"] = <<"text/html; charset=utf-8">>
           /\ ret[i].err = NoErr
           /\ ret[i].f \in DOMAIN handles
           /\ handles[ret[i].f].path = <<"error404.html">>
           /\ handles[ret[i].f].open
      /\ ~PrimaryFails(p) =>
           /\ sink[i].status = 0
           /\ sink[i].hdr["Content-Type"] = DefaultValue("Content-Type")
           /\ ret[i].err = NoErr
           /\ ret[i].f \in DOMAIN handles
           /\ handles[ret[i].f].path = p
           /\ handles[ret[i].f].open

C6_Witness ==
  /\ pc[1] = "opened"
  /\ lookup[1] = <<"docs">>
  /\ Kind(<<"docs">>) = "dir"
  /\ Kind(<<"docs", "index.html">>) = "none"
  /\ Kind(<<"error404.html">>) = "file"
  /\ sink[1].status = 404
  /\ handles[ret[1].f].path = <<"error404.html">>

\* C7 as stated: when the primary lookup fails and /error404.html cannot be
\* opened, the error Open returns is the failure of the primary lookup.
C7_OriginalErrorReturned ==
  \A i \in active :
    (pc[i] \in {"opened", "indexed"} /\ ret[i].err # NoErr) => ret[i].err = primaryErr[i]

\* C9 as stated: every file the resolver opened for a request is closed by
\* the time the request's handling returns (the returned one by the file
\* server).
C9_HandlesClosed ==
  \A i \in active :
    pc[i] = "done" =>
      \A h \in DOMAIN handles : handles[h].by = i => ~handles[h].open

\* C8: before the encoding is decided and before any handler runs, each
\* response header holds the value of the last default entry of exactly two
\* components that names it, and nothing when there is none: entries of any
\* other length change nothing and stop nothing.  The encoding decision
\* comes after: it overrides a default Content-Encoding.
C8_DefaultHeadersFirst ==
  \A i \in active :
    /\ pc[i] = "negotiate" =>
         /\ \A k \in HeaderNames : sink[i].hdr[k] = DefaultValue(k)
         /\ w[i] = "none" /\ gz[i] = 0 /\ sel[i] = "none" /\ wrote[i] = <<>>
         /\ sink[i].status = 0
    /\ pc[i] = "call" =>
         /\ sink[i].hdr["X-Frame-Options"] = DefaultValue("X-Frame-Options")
         /\ sink[i].hdr["Content-Type"] = DefaultValue("Content-Type")
         /\ sink[i].hdr["Content-Encoding"] =
              IF WantsGzip(i) THEN <<"gzip">> ELSE DefaultValue("Content-Encoding")
         /\ sel[i] = "none" /\ wrote[i] = <<>>

C8_Witness ==
  /\ pc[1] = "call"
  /\ Len(DefaultHTTPHeaders) = 5
  /\ sink[1].hdr["X-Frame-Options"] = <<"DENY">>
  /\ sink[1].hdr["Content-Type"] = <<>>
  /\ sink[1].hdr["Content-Encoding"] = <<"gzip">>

\* C10: with two requests served concurrently, under every interleaving,
\* each request's selected handler, default headers, Content-Encoding and
\* body are those its own request and its own handler's writes determine;
\* the two never hold the same gzip.Writer, each stream feeds the sink of
\* the request that made it, and DefaultHTTPHeaders and the gate are never
\* written.
C10_RequestsIndependent ==
  /\ [](\A i \in active :
          /\ sel[i] # "none" =>
               sel[i] = IF GateAllows(builder, req[i]) THEN "allowed" ELSE "notAllowed"
          /\ pc[i] # "idle" =>
               sink[i].hdr["X-Frame-Options"] = DefaultValue("X-Frame-Options")
          /\ Started(i) =>
               /\ sink[i].hdr["Content-Encoding"] =
                    IF WantsGzip(i) THEN <<"gzip">> ELSE DefaultValue("Content-Encoding")
               /\ w[i] = IF WantsGzip(i) THEN "gzr" ELSE "sink"
               /\ Payload(sink[i].body)
                    \o (IF gz[i] = 0 THEN <<>> ELSE gzs[gz[i]].pending)
                    = Concat(wrote[i])
          /\ gz[i] # 0 =>
               /\ gzs[gz[i]].dst = i
               /\ \A j \in active \ {i} : gz[j] # gz[i]
               /\ pc[i] = "done" =>
                    /\ gzs[gz[i]].closed
                    /\ Gunzip(sink[i].body).ok
                    /\ Gunzip(sink[i].body).data = Concat(wrote[i]))
  /\ [][DefaultHTTPHeaders' = DefaultHTTPHeaders /\ builder' = builder]_vars

\* Both requests are compressed, the second got its stream first, and one
\* is done while the other still writes.
C10_Witness ==
  /\ gz[1] = 2 /\ gz[2] = 1
  /\ pc[1] = "done" /\ pc[2] = "handler"
  /\ wrote[1] = <<Html>> /\ wrote[2] = <<Bin>>
  /\ sel[1] = "allowed" /\ sel[2] = "allowed"

====
